---- MODULE Spec2Model ----
(***************************************************************************)
(* A model of the blog server of src/post/post.go: the index page (toc,    *)
(* gentoc), the article handler (serve) and the persisted post cache       *)
(* ("blogcache").                                                          *)
(*                                                                         *)
(* Five specifications share the variables:                                *)
(*   PoolSpec   gentoc's ticket pool at its real size (par = 20) with the  *)
(*              posts counted, not named, so that more than par posts can  *)
(*              be stale at once;                                          *)
(*   Spec       index requests over a small tree of named posts, with the  *)
(*              post cache, the page cache and every post's metadata;      *)
(*   ServeSpec  article requests and the page cache;                       *)
(*   ScanSpec   readDirEllipses over a directory tree, as gentoc calls it  *)
(*              (ScanLive is ScanSpec with weak fairness);                 *)
(*   FeedSpec   the feed (atomfeed) over a listing of up to MaxFeed posts. *)
(***************************************************************************)
EXTENDS Integers, Sequences, FiniteSets, TLC

VARIABLES
    \* ---- gentoc's control state (PoolSpec and Spec)
    pc,         \* where the request's goroutine is
    i,          \* number of entries of dir the dispatch loop has handled
    j,          \* number of tickets the barrier loop has taken back
    limit,      \* number of tickets in the channel limit
    closed,     \* close(ch) has run
    crashed,    \* a panic left a goroutine unrecovered: the process is gone
    \* ---- PoolSpec: the goroutines of one pass, counted
    dirLen,     \* len(dir)
    chLen,      \* number of records buffered in ch
    loading,    \* goroutines inside loadPost (ticket held)
    returning,  \* goroutines past loadPost, deferred release pending
    unwinding,  \* goroutines panicking, deferred release pending
    dying,      \* goroutines whose panic has run the deferred release
    unreadable, \* posts of this pass whose read failed
    malformed,  \* posts of this pass whose metadata block made loadPost panic
    spawned,    \* goroutines started in this pass (history)
    \* ---- Spec and ServeSpec: the named posts
    fs,         \* the post files: name -> file
    now,        \* time.Now()
    touches,    \* number of file changes so far
    blogcache,  \* the persisted post cache: name -> metadata
    ocache,     \* the page cache: key -> page
    req,        \* the request being served (or the last one served)
    resp,       \* the response to it
    dir,        \* gentoc's listing of the tree
    postCache,  \* gentoc's postCache as loaded from "blogcache"
    ch,         \* the records buffered in ch, oldest first
    wk,         \* per entry of dir: the state of its goroutine
    out,        \* per entry of dir: the record emitted for it (history)
    passes,     \* number of passes started
    fresh,      \* the last pass wrote "blogcache" and no file changed since
    \* ---- ScanSpec: readDirEllipses
    tree,       \* the directory tree under the root: a set of nodes
    queue,      \* q, the directory paths still to list
    r,          \* the entries collected
    err,        \* a directory listing failed (ScanSpec, FeedSpec)
    \* ---- FeedSpec: atomfeed
    sorted      \* all, after sort.Sort(byTime(all))

ctlVars  == <<pc, i, j, limit, closed, crashed>>
poolVars == <<dirLen, chLen, loading, returning, unwinding, dying, unreadable,
             malformed, spawned>>
envVars  == <<fs, now, touches>>
reqVars  == <<req, resp>>
itemVars == <<dir, postCache, ch, wk, out, passes, fresh>>
scanVars == <<tree, queue, r, err>>
feedVars == <<sorted>>
vars     == <<ctlVars, poolVars, envVars, blogcache, ocache, reqVars, itemVars,
             scanVars, feedVars>>

\* const par = 20: the number of tickets
par == 20

\* ---- bounds of the model
\* the longest listing PoolSpec dispatches (more than par)
MaxItems == 22
\* how many posts of one PoolSpec pass may fail to read
MaxUnreadable == 1
\* how many posts of one PoolSpec pass may hold a malformed metadata block
MaxMalformed == 1

(***************************************************************************)
(* PoolSpec: one pass of gentoc from the dispatch loop to the range over   *)
(* ch. Whether an entry is a cache hit, and how its loadPost ends, is      *)
(* chosen when the entry is handled.                                       *)
(***************************************************************************)
PoolSizes == {0, 1, par, par + 1, MaxItems}

\* The fixed values the variables of the other specifications keep.
NoItems ==
    /\ fs = <<>> /\ now = 0 /\ touches = 0
    /\ blogcache = <<>> /\ ocache = <<>>
    /\ req = <<>> /\ resp = <<>>
    /\ dir = <<>> /\ postCache = <<>> /\ ch = <<>> /\ wk = <<>> /\ out = <<>>
    /\ passes = 0 /\ fresh = FALSE

\* Nothing is scanned and no feed is made.
NoScan ==
    /\ tree = {} /\ queue = <<>> /\ r = <<>> /\ err = FALSE
    /\ sorted = <<>>

NoPool ==
    /\ dirLen = 0 /\ chLen = 0 /\ loading = 0 /\ returning = 0
    /\ unwinding = 0 /\ dying = 0 /\ unreadable = 0 /\ malformed = 0
    /\ spawned = 0

\* ch and limit are made and limit is filled with par tickets.
PoolInit ==
    /\ dirLen \in PoolSizes
    /\ pc = "dispatch" /\ i = 0 /\ j = 0
    /\ limit = par
    /\ closed = FALSE /\ crashed = FALSE
    /\ chLen = 0 /\ loading = 0 /\ returning = 0 /\ unwinding = 0 /\ dying = 0
    /\ unreadable = 0 /\ malformed = 0 /\ spawned = 0
    /\ NoItems
    /\ NoScan

\* A channel with room for par records only.
ChCap_Par == par

\* make(chan *PostData, len(dir)): the capacity of ch.
ChCap == dirLen

\* A cache hit: ch <- meta (blocks while ch is full); continue. No ticket is
\* touched.
PoolHit ==
    /\ ~crashed /\ pc = "dispatch" /\ i < dirLen
    /\ chLen < ChCap
    /\ chLen' = chLen + 1
    /\ i' = i + 1
    /\ UNCHANGED <<pc, j, limit, closed, crashed, dirLen, loading, returning,
                   unwinding, dying, unreadable, malformed, spawned>>
    /\ UNCHANGED <<scanVars, feedVars,
                   envVars, blogcache, ocache, reqVars, itemVars>>

\* A miss whose goroutine is started without a ticket.
PoolSpawn_NoTicket ==
    /\ ~crashed /\ pc = "dispatch" /\ i < dirLen
    /\ loading' = loading + 1
    /\ i' = i + 1
    /\ spawned' = spawned + 1
    /\ UNCHANGED <<pc, j, limit, closed, crashed, dirLen, chLen, returning,
                   unwinding, dying, unreadable, malformed>>
    /\ UNCHANGED <<scanVars, feedVars,
                   envVars, blogcache, ocache, reqVars, itemVars>>

\* A miss: <-limit (blocks while no ticket is there), then go func(d).
PoolSpawn ==
    /\ ~crashed /\ pc = "dispatch" /\ i < dirLen
    /\ limit > 0
    /\ limit' = limit - 1
    /\ loading' = loading + 1
    /\ i' = i + 1
    /\ spawned' = spawned + 1
    /\ UNCHANGED <<pc, j, closed, crashed, dirLen, chLen, returning,
                   unwinding, dying, unreadable, malformed>>
    /\ UNCHANGED <<scanVars, feedVars,
                   envVars, blogcache, ocache, reqVars, itemVars>>

\* loadPost returned a record: ch <- meta (blocks while ch is full).
PoolSend ==
    /\ ~crashed /\ loading > 0
    /\ chLen < ChCap
    /\ chLen' = chLen + 1
    /\ loading' = loading - 1
    /\ returning' = returning + 1
    /\ UNCHANGED <<ctlVars, dirLen, unwinding, dying, unreadable, malformed, spawned>>
    /\ UNCHANGED <<scanVars, feedVars,
                   envVars, blogcache, ocache, reqVars, itemVars>>

\* A failed load whose goroutine returns without giving its ticket back.
PoolLoadErr_NoRelease ==
    /\ ~crashed /\ loading > 0
    /\ unreadable < MaxUnreadable
    /\ unreadable' = unreadable + 1
    /\ loading' = loading - 1
    /\ UNCHANGED <<ctlVars, dirLen, chLen, returning, unwinding, dying,
                   malformed, spawned>>
    /\ UNCHANGED <<scanVars, feedVars, envVars, blogcache, ocache, reqVars,
                   itemVars>>

\* loadPost returned an error: it is logged and the goroutine returns.
PoolLoadErr ==
    /\ ~crashed /\ loading > 0
    /\ unreadable < MaxUnreadable
    /\ unreadable' = unreadable + 1
    /\ loading' = loading - 1
    /\ returning' = returning + 1
    /\ UNCHANGED <<ctlVars, dirLen, chLen, unwinding, dying, malformed, spawned>>
    /\ UNCHANGED <<scanVars, feedVars,
                   envVars, blogcache, ocache, reqVars, itemVars>>

\* loadPost panicked (no end of the metadata block, or json.Unmarshal failed).
PoolLoadPanic ==
    /\ ~crashed /\ loading > 0
    /\ malformed < MaxMalformed
    /\ malformed' = malformed + 1
    /\ loading' = loading - 1
    /\ unwinding' = unwinding + 1
    /\ UNCHANGED <<ctlVars, dirLen, chLen, returning, dying, unreadable, spawned>>
    /\ UNCHANGED <<scanVars, feedVars,
                   envVars, blogcache, ocache, reqVars, itemVars>>

\* The deferred limit <- true of a returning goroutine.
PoolRelease ==
    /\ ~crashed /\ returning > 0
    /\ limit < par
    /\ limit' = limit + 1
    /\ returning' = returning - 1
    /\ UNCHANGED <<pc, i, j, closed, crashed, dirLen, chLen, loading,
                   unwinding, dying, unreadable, malformed, spawned>>
    /\ UNCHANGED <<scanVars, feedVars,
                   envVars, blogcache, ocache, reqVars, itemVars>>

\* The deferred limit <- true of a panicking goroutine; the panic goes on.
PoolUnwind ==
    /\ ~crashed /\ unwinding > 0
    /\ limit < par
    /\ limit' = limit + 1
    /\ unwinding' = unwinding - 1
    /\ dying' = dying + 1
    /\ UNCHANGED <<pc, i, j, closed, crashed, dirLen, chLen, loading,
                   returning, unreadable, malformed, spawned>>
    /\ UNCHANGED <<scanVars, feedVars,
                   envVars, blogcache, ocache, reqVars, itemVars>>

\* Nothing recovers a panic of the goroutine: the runtime ends the process.
PoolCrash ==
    /\ ~crashed /\ dying > 0
    /\ crashed' = TRUE
    /\ UNCHANGED <<pc, i, j, limit, closed, poolVars>>
    /\ UNCHANGED <<scanVars, feedVars,
                   envVars, blogcache, ocache, reqVars, itemVars>>

\* One round of the barrier loop: <-limit.
PoolDrain ==
    /\ ~crashed /\ pc = "dispatch" /\ i = dirLen
    /\ j < par
    /\ limit > 0
    /\ limit' = limit - 1
    /\ j' = j + 1
    /\ UNCHANGED <<pc, i, closed, crashed, poolVars>>
    /\ UNCHANGED <<scanVars, feedVars,
                   envVars, blogcache, ocache, reqVars, itemVars>>

\* close(ch) as soon as the dispatch loop is over.
PoolClose_NoBarrier ==
    /\ ~crashed /\ pc = "dispatch" /\ i = dirLen
    /\ closed' = TRUE
    /\ pc' = "closed"
    /\ UNCHANGED <<i, j, limit, crashed, poolVars>>
    /\ UNCHANGED <<scanVars, feedVars,
                   envVars, blogcache, ocache, reqVars, itemVars>>

\* close(ch), after par rounds of the barrier loop.
PoolClose ==
    /\ ~crashed /\ pc = "dispatch" /\ i = dirLen
    /\ j = par
    /\ closed' = TRUE
    /\ pc' = "closed"
    /\ UNCHANGED <<i, j, limit, crashed, poolVars>>
    /\ UNCHANGED <<scanVars, feedVars,
                   envVars, blogcache, ocache, reqVars, itemVars>>

\* for meta := range ch: the records are taken out of the closed channel.
PoolCollect ==
    /\ ~crashed /\ pc = "closed"
    /\ pc' = "done"
    /\ UNCHANGED <<i, j, limit, closed, crashed, poolVars>>
    /\ UNCHANGED <<scanVars, feedVars,
                   envVars, blogcache, ocache, reqVars, itemVars>>

PoolNext ==
    \/ PoolHit
    \/ PoolSpawn
    \/ PoolSend
    \/ PoolLoadErr
    \/ PoolLoadPanic
    \/ PoolRelease
    \/ PoolUnwind
    \/ PoolCrash
    \/ PoolDrain
    \/ PoolClose
    \/ PoolCollect

PoolSpec == PoolInit /\ [][PoolNext]_vars

\* The goroutines holding a ticket: the parses in flight.
InFlight == loading + returning + unwinding

(***************************************************************************)
(* The named posts. A file stands for the bytes of one post and what       *)
(* c.Read says of it: its metadata block as loadPost decodes it, and the   *)
(* modification time and size of the file.                                 *)
(***************************************************************************)
\* The names readDirEllipses lists, and a name no file has.
Names == {"a", "b"}
Missing == "zz"

\* config.Account, and the callers: ctxt.User() with isOwner
\* (aeu.IsAdmin(...) || ctxt.User() == config.Account).
Account == "owner"
Callers ==
    { [user |-> "?", isOwner |-> FALSE],
      [user |-> "alice", isOwner |-> FALSE],
      [user |-> "bob", isOwner |-> FALSE],
      [user |-> Account, isOwner |-> TRUE] }

\* ---- bounds of the model
\* the passes of gentoc one behaviour of Spec starts
MaxPass == 2
\* the file changes one behaviour makes
MaxTouch == 1
\* the latest time.Now(); a Date of MaxNow is in the future at first
MaxNow == 2

\* A post file. kind: "ok", or why loadPost fails on it. HdrName is the
\* "Name" key of the metadata block ("" when the block has none). IsDir:
\* the entry is a directory; Nested: it lies in a directory under the root.
File(kind, date, notInTOC, reader, hdrName) ==
    [kind |-> kind, ModTime |-> 1, Size |-> 1, Date |-> date,
     NotInTOC |-> notInTOC, Reader |-> reader, HdrName |-> hdrName,
     Favorite |-> FALSE, IsDir |-> FALSE, Nested |-> FALSE]

\* The files a tree is made of: published, published but kept out of the
\* index, a draft shared with alice, a post dated MaxNow, a file whose read
\* fails, two malformed metadata blocks, and a block that sets "Name".
FilesFor(name) ==
    { File("ok", 1, FALSE, {}, ""),
      File("ok", 1, TRUE, {}, ""),
      File("ok", 0, FALSE, {"alice"}, ""),
      File("ok", MaxNow, FALSE, {}, ""),
      File("unreadable", 0, FALSE, {}, ""),
      File("noend", 0, FALSE, {}, ""),
      File("badjson", 0, FALSE, {}, ""),
      File("ok", 1, FALSE, {}, CHOOSE other \in Names : other # name) }

\* The trees: every file one of FilesFor, one of them at least a published
\* post of the plain kind.
Trees == { t \in [Names -> UNION {FilesFor(n) : n \in Names}] :
             /\ \A n \in Names : t[n] \in FilesFor(n)
             /\ \E n \in Names : t[n] = File("ok", 1, FALSE, {}, "") }

\* PostData, as far as the index and the caches read it.
NoMeta ==
    [Name |-> "", Date |-> 0, NotInTOC |-> FALSE, Reader |-> {},
     Favorite |-> FALSE, FileModTime |-> 0, FileSize |-> 0, article |-> ""]

EmptyMap == [x \in {} |-> NoMeta]

MapPut(m, k, v) == [x \in DOMAIN m \cup {k} |-> IF x = k THEN v ELSE m[x]]

\* loadPost: the read fails (an error), the metadata block has no end or
\* does not decode (a panic), or the record: the defaults, overridden by the
\* keys of the block, then FileModTime and FileSize of the file read.
loadPost(name) ==
    IF name \notin DOMAIN fs \/ fs[name].kind = "unreadable"
    THEN [st |-> "err", meta |-> NoMeta]
    ELSE IF fs[name].kind \in {"noend", "badjson"}
    THEN [st |-> "panic", meta |-> NoMeta]
    ELSE [st |-> "ok",
          meta |-> [Name |-> IF fs[name].HdrName # "" THEN fs[name].HdrName ELSE name,
                    Date |-> fs[name].Date,
                    NotInTOC |-> fs[name].NotInTOC,
                    Reader |-> fs[name].Reader,
                    Favorite |-> fs[name].Favorite,
                    FileModTime |-> fs[name].ModTime,
                    FileSize |-> fs[name].Size,
                    article |-> "body"]]

\* PostData.canRead
canRead(meta, user) == user \in meta.Reader

\* PostData.IsDraft: Date.IsZero() || Date.After(time.Now())
IsDraft(meta) == meta.Date = 0 \/ meta.Date > now

\* A PostData whose FileSize is not exported is not persisted with it.
jsonRoundTrip_NoSize(meta) == [meta EXCEPT !.article = "", !.FileSize = 0]

\* json.Marshal then json.Unmarshal of a record: article is unexported and
\* is not written; the other fields come back as they were.
jsonRoundTrip(meta) == [meta EXCEPT !.article = ""]

\* The listing of the tree: one entry per file, its name the full path.
Listing ==
    LET byName == <<"a", "b", "c", "d">>
        all == SelectSeq(byName, LAMBDA n : n \in DOMAIN fs)
    IN  [k \in 1..Len(all) |->
            [Name |-> all[k], ModTime |-> fs[all[k]].ModTime, Size |-> fs[all[k]].Size]]

(***************************************************************************)
(* Spec: index requests. serve hands "/" and "/draft" to toc, which        *)
(* answers from the page cache or runs gentoc.                             *)
(***************************************************************************)
NoReq ==
    [page |-> "none", user |-> "", isOwner |-> FALSE, draft |-> FALSE,
     readdir |-> "", p |-> ""]
NoResp == [status |-> 0, from |-> "none", posts |-> <<>>, count |-> 0, name |-> ""]
NotFound == [status |-> 404, from |-> "none", posts |-> <<>>, count |-> 0, name |-> ""]
ServerError == [status |-> 500, from |-> "none", posts |-> <<>>, count |-> 0, name |-> ""]
TocPage(from, posts) ==
    [status |-> 200, from |-> from, posts |-> posts, count |-> 0, name |-> ""]

TocReq(c, draft, readdir) ==
    [page |-> "toc", user |-> c.user, isOwner |-> c.isOwner, draft |-> draft,
     readdir |-> readdir, p |-> ""]

\* toc's cache key: "blog:toc:<draft>", then the readdir form value if any,
\* then the user in draft mode.
TocKey(draft, readdir, user) ==
    "blog:toc:" \o (IF draft THEN "true" ELSE "false")
        \o (IF readdir # "" THEN ",readdir=" \o readdir ELSE "")
        \o (IF draft THEN ",user=" \o user ELSE "")

\* A check that leaves the size out.
CacheValid_TimeOnly(cache, d) ==
    /\ d.Name \in DOMAIN cache
    /\ cache[d.Name].FileModTime = d.ModTime

\* The cached record of d is used: it is there, and its modification time
\* and its size are those of the listing.
CacheValid(cache, d) ==
    /\ d.Name \in DOMAIN cache
    /\ cache[d.Name].FileModTime = d.ModTime
    /\ cache[d.Name].FileSize = d.Size

\* A filter that leaves the Reader list out.
InIndex_OwnerOnly(meta, draft, isOwner, user) ==
    \/ (~draft /\ ~IsDraft(meta) /\ ~meta.NotInTOC)
    \/ (isOwner /\ draft)

\* gentoc's filter: the record goes into the index.
InIndex(meta, draft, isOwner, user) ==
    \/ (~draft /\ ~IsDraft(meta) /\ ~meta.NotInTOC)
    \/ (isOwner /\ draft)
    \/ canRead(meta, user)

\* A Less that puts the older record first.
Less_Before(a, b) == a.Date < b.Date

\* byTime.Less(a, b) for the records a and b
Less(a, b) == a.Date > b.Date

\* The orders of the positions I of xs in which no record is Less than one
\* before it: a first position is one no other record is Less than.
RECURSIVE SortedIdx(_, _)
SortedIdx(xs, I) ==
    IF I = {} THEN {<<>>}
    ELSE UNION { { <<m>> \o t : t \in SortedIdx(xs, I \ {m}) } :
                 m \in { x \in I : \A y \in I : ~Less(xs[y], xs[x]) } }

\* What sort.Sort(byTime(all)) may leave: a permutation of all in which no
\* record is Less than one before it (sort.Sort is not stable).
Sorted(all) ==
    { [k \in 1..Len(all) |-> all[p[k]]] : p \in SortedIdx(all, 1..Len(all)) }

\* postCache after the range over ch: postCache[meta.Name] = meta, in order.
RECURSIVE Rebuild(_)
Rebuild(s) ==
    IF s = <<>> THEN EmptyMap
    ELSE MapPut(Rebuild(SubSeq(s, 1, Len(s) - 1)), s[Len(s)].Name, s[Len(s)])

\* "/draft" asked by a caller who is not logged in: not found.
TocNotFound(c) ==
    /\ ~crashed /\ pc = "idle"
    /\ c.user = "?"
    /\ req' = TocReq(c, TRUE, "")
    /\ resp' = NotFound
    /\ UNCHANGED <<ctlVars, poolVars, scanVars, feedVars,
                   envVars, blogcache, ocache, itemVars>>

\* toc finds the page in the page cache and writes it.
TocCached(c, draft, readdir) ==
    /\ ~crashed /\ pc = "idle"
    /\ ~(draft /\ c.user = "?")
    /\ TocKey(draft, readdir, c.user) \in DOMAIN ocache
    /\ req' = TocReq(c, draft, readdir)
    /\ resp' = ocache[TocKey(draft, readdir, c.user)]
    /\ UNCHANGED <<ctlVars, poolVars, scanVars, feedVars,
                   envVars, blogcache, ocache, itemVars>>

\* gentoc: the listing of the tree fails; the panic is recovered by serve.
GentocScanFails(c, draft, readdir) ==
    /\ ~crashed /\ pc = "idle"
    /\ ~(draft /\ c.user = "?")
    /\ TocKey(draft, readdir, c.user) \notin DOMAIN ocache
    /\ req' = TocReq(c, draft, readdir)
    /\ resp' = ServerError
    /\ UNCHANGED <<ctlVars, poolVars, scanVars, feedVars,
                   envVars, blogcache, ocache, itemVars>>

\* gentoc with readdir=1: the number of entries is written, nothing else.
GentocReaddir(c, draft) ==
    /\ ~crashed /\ pc = "idle"
    /\ ~(draft /\ c.user = "?")
    /\ TocKey(draft, "1", c.user) \notin DOMAIN ocache
    /\ req' = TocReq(c, draft, "1")
    /\ resp' = [status |-> 200, from |-> "readdir", posts |-> <<>>,
                count |-> Len(Listing), name |-> ""]
    /\ UNCHANGED <<ctlVars, poolVars, scanVars, feedVars,
                   envVars, blogcache, ocache, itemVars>>

\* gentoc up to the dispatch loop: the tree is listed, "blogcache" is read
\* (postCache is empty when there is none), ch is made and limit is filled
\* with par tickets.
GentocStart(c, draft) ==
    /\ ~crashed /\ pc = "idle"
    /\ ~(draft /\ c.user = "?")
    /\ TocKey(draft, "", c.user) \notin DOMAIN ocache
    /\ passes < MaxPass
    /\ passes' = passes + 1
    /\ req' = TocReq(c, draft, "")
    /\ resp' = NoResp
    /\ dir' = Listing
    /\ postCache' = blogcache
    /\ ch' = <<>>
    /\ wk' = [k \in 1..Len(Listing) |-> "none"]
    /\ out' = [k \in 1..Len(Listing) |-> NoMeta]
    /\ limit' = par
    /\ i' = 0 /\ j' = 0
    /\ closed' = FALSE
    /\ pc' = "dispatch"
    /\ UNCHANGED <<crashed, poolVars, scanVars, feedVars,
                   envVars, blogcache, ocache, fresh>>

\* The dispatch loop at a cache hit: ch <- meta; continue.
Hit ==
    /\ ~crashed /\ pc = "dispatch" /\ i < Len(dir)
    /\ CacheValid(postCache, dir[i + 1])
    /\ ch' = Append(ch, postCache[dir[i + 1].Name])
    /\ out' = [out EXCEPT ![i + 1] = postCache[dir[i + 1].Name]]
    /\ i' = i + 1
    /\ UNCHANGED <<pc, j, limit, closed, crashed, poolVars, scanVars, feedVars,
                   envVars, blogcache,
                   ocache, reqVars, dir, postCache, wk, passes, fresh>>

\* The dispatch loop at a miss: <-limit, then go func(d).
Spawn ==
    /\ ~crashed /\ pc = "dispatch" /\ i < Len(dir)
    /\ ~CacheValid(postCache, dir[i + 1])
    /\ limit > 0
    /\ limit' = limit - 1
    /\ wk' = [wk EXCEPT ![i + 1] = "loading"]
    /\ i' = i + 1
    /\ UNCHANGED <<pc, j, closed, crashed, poolVars, scanVars, feedVars,
                   envVars, blogcache,
                   ocache, reqVars, dir, postCache, ch, out, passes, fresh>>

\* The goroutine of entry k: loadPost returned a record; ch <- meta.
Send(k) ==
    /\ ~crashed /\ wk[k] = "loading"
    /\ loadPost(dir[k].Name).st = "ok"
    /\ ch' = Append(ch, loadPost(dir[k].Name).meta)
    /\ out' = [out EXCEPT ![k] = loadPost(dir[k].Name).meta]
    /\ wk' = [wk EXCEPT ![k] = "returning"]
    /\ UNCHANGED <<ctlVars, poolVars, scanVars, feedVars,
                   envVars, blogcache, ocache, reqVars,
                   dir, postCache, passes, fresh>>

\* loadPost returned an error: it is logged and the goroutine returns.
LoadErr(k) ==
    /\ ~crashed /\ wk[k] = "loading"
    /\ loadPost(dir[k].Name).st = "err"
    /\ wk' = [wk EXCEPT ![k] = "returning"]
    /\ UNCHANGED <<ctlVars, poolVars, scanVars, feedVars,
                   envVars, blogcache, ocache, reqVars,
                   dir, postCache, ch, out, passes, fresh>>

\* loadPost panicked.
LoadPanic(k) ==
    /\ ~crashed /\ wk[k] = "loading"
    /\ loadPost(dir[k].Name).st = "panic"
    /\ wk' = [wk EXCEPT ![k] = "unwinding"]
    /\ UNCHANGED <<ctlVars, poolVars, scanVars, feedVars,
                   envVars, blogcache, ocache, reqVars,
                   dir, postCache, ch, out, passes, fresh>>

\* The deferred limit <- true of a returning goroutine.
Release(k) ==
    /\ ~crashed /\ wk[k] = "returning"
    /\ limit < par
    /\ limit' = limit + 1
    /\ wk' = [wk EXCEPT ![k] = "done"]
    /\ UNCHANGED <<pc, i, j, closed, crashed, poolVars, scanVars, feedVars,
                   envVars, blogcache,
                   ocache, reqVars, dir, postCache, ch, out, passes, fresh>>

\* The deferred limit <- true of a panicking goroutine; the panic goes on.
Unwind(k) ==
    /\ ~crashed /\ wk[k] = "unwinding"
    /\ limit < par
    /\ limit' = limit + 1
    /\ wk' = [wk EXCEPT ![k] = "dying"]
    /\ UNCHANGED <<pc, i, j, closed, crashed, poolVars, scanVars, feedVars,
                   envVars, blogcache,
                   ocache, reqVars, dir, postCache, ch, out, passes, fresh>>

\* Nothing recovers a panic of the goroutine: the runtime ends the process.
Crash(k) ==
    /\ ~crashed /\ wk[k] = "dying"
    /\ crashed' = TRUE
    /\ UNCHANGED <<pc, i, j, limit, closed, poolVars, scanVars, feedVars,
                   envVars, blogcache,
                   ocache, reqVars, itemVars>>

\* One round of the barrier loop: <-limit.
Drain ==
    /\ ~crashed /\ pc = "dispatch" /\ i = Len(dir)
    /\ j < par
    /\ limit > 0
    /\ limit' = limit - 1
    /\ j' = j + 1
    /\ UNCHANGED <<pc, i, closed, crashed, poolVars, scanVars, feedVars,
                   envVars, blogcache,
                   ocache, reqVars, itemVars>>

\* close(ch), after par rounds of the barrier loop.
Close ==
    /\ ~crashed /\ pc = "dispatch" /\ i = Len(dir)
    /\ j = par
    /\ closed' = TRUE
    /\ pc' = "closed"
    /\ UNCHANGED <<i, j, limit, crashed, poolVars, scanVars, feedVars,
                   envVars, blogcache,
                   ocache, reqVars, itemVars>>

\* The rest of gentoc: postCache is rebuilt from ch and the index filtered,
\* the index is sorted, postCache is written to "blogcache" (a failure is
\* logged), the page is rendered, stored in the page cache and written.
Assemble(writeOk) ==
    /\ ~crashed /\ pc = "closed"
    /\ postCache' = Rebuild(ch)
    /\ blogcache' = IF writeOk
                    THEN [x \in DOMAIN Rebuild(ch) |-> jsonRoundTrip(Rebuild(ch)[x])]
                    ELSE blogcache
    /\ fresh' = writeOk
    /\ \E s \in Sorted(SelectSeq(ch,
                  LAMBDA m : InIndex(m, req.draft, req.isOwner, req.user))) :
          /\ ocache' = MapPut(ocache, TocKey(req.draft, req.readdir, req.user),
                              TocPage("cache", s))
          /\ resp' = TocPage("gen", s)
    /\ pc' = "idle"
    /\ UNCHANGED <<i, j, limit, closed, crashed, poolVars, scanVars, feedVars,
                   envVars, req,
                   dir, ch, wk, out, passes>>

\* A post file is changed: its modification time or its size. A write
\* under "blog" invalidates the pages cached with that scope.
Touch(name, what) ==
    /\ ~crashed /\ pc = "idle"
    /\ touches < MaxTouch
    /\ touches' = touches + 1
    /\ fs' = [fs EXCEPT
                ![name].ModTime = IF what = "time" THEN @ + 1 ELSE @,
                ![name].Size = IF what = "size" THEN @ + 1 ELSE @]
    /\ ocache' = [x \in {} |-> NoResp]
    /\ fresh' = FALSE
    /\ req' = NoReq /\ resp' = NoResp
    /\ UNCHANGED <<ctlVars, poolVars, scanVars, feedVars, now, blogcache,
                   dir, postCache, ch, wk, out, passes>>

\* Time passes.
Tick ==
    /\ ~crashed /\ pc = "idle"
    /\ now < MaxNow
    /\ now' = now + 1
    /\ req' = NoReq /\ resp' = NoResp
    /\ UNCHANGED <<ctlVars, poolVars, scanVars, feedVars,
                   fs, touches, blogcache, ocache, itemVars>>

Init ==
    /\ fs \in Trees
    /\ now = 1 /\ touches = 0
    /\ blogcache = EmptyMap
    /\ ocache = [x \in {} |-> NoResp]
    /\ req = NoReq /\ resp = NoResp
    /\ pc = "idle" /\ i = 0 /\ j = 0 /\ limit = 0
    /\ closed = FALSE /\ crashed = FALSE
    /\ dir = <<>> /\ postCache = EmptyMap /\ ch = <<>> /\ wk = <<>> /\ out = <<>>
    /\ passes = 0 /\ fresh = FALSE
    /\ NoPool
    /\ NoScan

Next ==
    \/ \E c \in Callers : TocNotFound(c)
    \/ \E c \in Callers, draft \in BOOLEAN, readdir \in {"", "1"} :
          TocCached(c, draft, readdir)
    \/ \E c \in Callers, draft \in BOOLEAN, readdir \in {"", "1"} :
          GentocScanFails(c, draft, readdir)
    \/ \E c \in Callers, draft \in BOOLEAN : GentocReaddir(c, draft)
    \/ \E c \in Callers, draft \in BOOLEAN : GentocStart(c, draft)
    \/ Hit
    \/ Spawn
    \/ \E k \in DOMAIN wk : Send(k)
    \/ \E k \in DOMAIN wk : LoadErr(k)
    \/ \E k \in DOMAIN wk : LoadPanic(k)
    \/ \E k \in DOMAIN wk : Release(k)
    \/ \E k \in DOMAIN wk : Unwind(k)
    \/ \E k \in DOMAIN wk : Crash(k)
    \/ Drain
    \/ Close
    \/ \E writeOk \in BOOLEAN : Assemble(writeOk)
    \/ \E name \in Names, what \in {"time", "size"} : Touch(name, what)

Spec == Init /\ [][Next]_vars

(***************************************************************************)
(* ServeSpec: article requests, "/<p>" and "/draft/<p>", handled by serve  *)
(* itself.                                                                 *)
(***************************************************************************)
\* The paths asked for: the posts, a path no file has, and a static file
\* (a path with a dot in it).
StaticPath == "style.css"
Paths == Names \cup {Missing, StaticPath}

ArticleReq(c, draft, p) ==
    [page |-> "article", user |-> c.user, isOwner |-> c.isOwner, draft |-> draft,
     readdir |-> "", p |-> p]

ArticlePage(from, p) ==
    [status |-> 200, from |-> from, posts |-> <<>>, count |-> 0, name |-> p]

\* serve's cache key: "bloghtml:" + p, then the user when draft && !isOwner.
ArticleKey(p, draft, isOwner, user) ==
    "bloghtml:" \o p \o (IF draft /\ ~isOwner THEN ",user=" \o user ELSE "")

\* "/draft/<p>" asked by a caller who is not logged in: not found.
ArticleNotLoggedIn(c, p) ==
    /\ ~crashed /\ pc = "idle"
    /\ c.user = "?"
    /\ req' = ArticleReq(c, TRUE, p)
    /\ resp' = NotFound
    /\ UNCHANGED <<ctlVars, poolVars, scanVars, feedVars,
                   envVars, blogcache, ocache, itemVars>>

\* A path with a dot is a static file: ctxt.ServeFile.
ArticleStatic(c, draft) ==
    /\ ~crashed /\ pc = "idle"
    /\ ~(draft /\ c.user = "?")
    /\ req' = ArticleReq(c, draft, StaticPath)
    /\ resp' = [status |-> 200, from |-> "static", posts |-> <<>>, count |-> 0,
                name |-> StaticPath]
    /\ UNCHANGED <<ctlVars, poolVars, scanVars, feedVars,
                   envVars, blogcache, ocache, itemVars>>

\* The page is in the page cache: it is written as it is.
ArticleCached(c, draft, p) ==
    /\ ~crashed /\ pc = "idle"
    /\ ~(draft /\ c.user = "?")
    /\ p # StaticPath
    /\ ArticleKey(p, draft, c.isOwner, c.user) \in DOMAIN ocache
    /\ req' = ArticleReq(c, draft, p)
    /\ resp' = ocache[ArticleKey(p, draft, c.isOwner, c.user)]
    /\ UNCHANGED <<ctlVars, poolVars, scanVars, feedVars,
                   envVars, blogcache, ocache, itemVars>>

\* A miss, and loadPost panics: serve's deferred function answers 500.
ArticlePanic(c, draft, p) ==
    /\ ~crashed /\ pc = "idle"
    /\ ~(draft /\ c.user = "?")
    /\ p # StaticPath
    /\ ArticleKey(p, draft, c.isOwner, c.user) \notin DOMAIN ocache
    /\ loadPost(p).st = "panic"
    /\ req' = ArticleReq(c, draft, p)
    /\ resp' = ServerError
    /\ UNCHANGED <<ctlVars, poolVars, scanVars, feedVars,
                   envVars, blogcache, ocache, itemVars>>

\* A miss, and the post cannot be read, or is a draft when the request is not
\* (or the other way round), or is a draft the caller may not read: not found.
ArticleNotFound(c, draft, p) ==
    /\ ~crashed /\ pc = "idle"
    /\ ~(draft /\ c.user = "?")
    /\ p # StaticPath
    /\ ArticleKey(p, draft, c.isOwner, c.user) \notin DOMAIN ocache
    /\ \/ loadPost(p).st = "err"
       \/ /\ loadPost(p).st = "ok"
          /\ \/ IsDraft(loadPost(p).meta) # draft
             \/ (draft /\ ~c.isOwner /\ ~canRead(loadPost(p).meta, c.user))
    /\ req' = ArticleReq(c, draft, p)
    /\ resp' = NotFound
    /\ UNCHANGED <<ctlVars, poolVars, scanVars, feedVars,
                   envVars, blogcache, ocache, itemVars>>

\* A miss, and the post may be shown: it is rendered, stored and written.
ArticleRender(c, draft, p) ==
    /\ ~crashed /\ pc = "idle"
    /\ ~(draft /\ c.user = "?")
    /\ p # StaticPath
    /\ ArticleKey(p, draft, c.isOwner, c.user) \notin DOMAIN ocache
    /\ loadPost(p).st = "ok"
    /\ IsDraft(loadPost(p).meta) = draft
    /\ ~(draft /\ ~c.isOwner /\ ~canRead(loadPost(p).meta, c.user))
    /\ req' = ArticleReq(c, draft, p)
    /\ ocache' = MapPut(ocache, ArticleKey(p, draft, c.isOwner, c.user),
                        ArticlePage("cache", p))
    /\ resp' = ArticlePage("gen", p)
    /\ UNCHANGED <<ctlVars, poolVars, scanVars, feedVars,
                   envVars, blogcache, itemVars>>

ServeNext ==
    \/ \E c \in Callers, p \in Paths : ArticleNotLoggedIn(c, p)
    \/ \E c \in Callers, draft \in BOOLEAN : ArticleStatic(c, draft)
    \/ \E c \in Callers, draft \in BOOLEAN, p \in Paths : ArticleCached(c, draft, p)
    \/ \E c \in Callers, draft \in BOOLEAN, p \in Paths : ArticlePanic(c, draft, p)
    \/ \E c \in Callers, draft \in BOOLEAN, p \in Paths : ArticleNotFound(c, draft, p)
    \/ \E c \in Callers, draft \in BOOLEAN, p \in Paths : ArticleRender(c, draft, p)
    \/ \E name \in Names, what \in {"time", "size"} : Touch(name, what)
    \/ Tick

ServeSpec == Init /\ [][ServeNext]_vars

(***************************************************************************)
(* ScanSpec: readDirEllipses(c, "blog/post") as gentoc calls it. A node of *)
(* the tree is the sequence of the names from the root down to it; the     *)
(* names "d" and "e" are directories, "x" is a file.                       *)
(***************************************************************************)
\* the directories nested below one another under the root
MaxDepth == 2

Root == "blog/post"
DirNames == {"d", "e"}

\* The nodes a tree may have: under the root and under every "d" of the
\* chain d, d/d, ... a file x and the directories d and e; under every e a
\* file x.
RECURSIVE Chain(_)
Chain(n) == IF n = 0 THEN <<>> ELSE Append(Chain(n - 1), "d")

AllNodes ==
    UNION { { Append(Chain(n), l) : l \in {"x", "d", "e"} } \cup { Chain(n) \o <<"e", "x">> } :
            n \in 0..MaxDepth }

Parent(n) == SubSeq(n, 1, Len(n) - 1)
IsDirNode(n) == n[Len(n)] \in DirNames

\* The trees: every node but those under the root has its parent, a
\* directory, in the tree.
ScanTrees ==
    { T \in SUBSET AllNodes : \A n \in T : Len(n) > 1 => Parent(n) \in T }

\* path.Join(rpath, name), both clean
Join(rpath, name) == rpath \o "/" \o name

\* The path of a node, as the joins of the scan build it.
RECURSIVE PathOf(_)
PathOf(n) == IF n = <<>> THEN Root ELSE Join(PathOf(Parent(n)), n[Len(n)])

\* readDir(c, rpath): the entries of the directory rpath, by name.
readDir(rpath) ==
    LET names == SelectSeq(<<"d", "e", "x">>,
                     LAMBDA l : \E n \in tree :
                                   n[Len(n)] = l /\ PathOf(Parent(n)) = rpath)
    IN  [k \in 1..Len(names) |-> [Name |-> names[k], IsDir |-> names[k] \in DirNames]]

\* The entries of children that are queued (their full paths) and the ones
\* that are collected (Name replaced by the full path).
RECURSIVE Queued(_, _)
Queued(rpath, children) ==
    IF children = <<>> THEN <<>>
    ELSE IF Head(children).IsDir
         THEN <<Join(rpath, Head(children).Name)>> \o Queued(rpath, Tail(children))
         ELSE Queued(rpath, Tail(children))

RECURSIVE Collected(_, _)
Collected(rpath, children) ==
    IF children = <<>> THEN <<>>
    ELSE IF Head(children).IsDir
         THEN Collected(rpath, Tail(children))
         ELSE <<[Head(children) EXCEPT !.Name = Join(rpath, Head(children).Name)]>>
                 \o Collected(rpath, Tail(children))

\* gentoc is entered on a miss of the page cache: q holds the root.
ScanInit ==
    /\ tree \in ScanTrees
    /\ queue = <<Root>> /\ r = <<>> /\ err = FALSE
    /\ sorted = <<>>
    /\ pc = "scan" /\ i = 0 /\ j = 0 /\ limit = 0
    /\ closed = FALSE /\ crashed = FALSE
    /\ fs = <<>> /\ now = 0 /\ touches = 0
    /\ blogcache = EmptyMap /\ ocache = [x \in {} |-> NoResp]
    /\ req = TocReq([user |-> "?", isOwner |-> FALSE], FALSE, "")
    /\ resp = NoResp
    /\ dir = <<>> /\ postCache = <<>> /\ ch = <<>> /\ wk = <<>> /\ out = <<>>
    /\ passes = 0 /\ fresh = FALSE
    /\ NoPool

\* A round that drops the directories instead of queueing them.
ScanDir_NoRecurse ==
    /\ pc = "scan" /\ queue # <<>>
    /\ queue' = Tail(queue)
    /\ r' = r \o Collected(Head(queue), readDir(Head(queue)))
    /\ UNCHANGED <<tree, err, feedVars, ctlVars, poolVars, envVars, blogcache,
                   ocache, reqVars, itemVars>>

\* One round of the loop: the front of q is taken off and listed; its
\* directories are queued, its other entries collected under their full path.
ScanDir ==
    /\ pc = "scan" /\ queue # <<>>
    /\ queue' = Tail(queue) \o Queued(Head(queue), readDir(Head(queue)))
    /\ r' = r \o Collected(Head(queue), readDir(Head(queue)))
    /\ UNCHANGED <<tree, err, feedVars, ctlVars, poolVars, envVars, blogcache,
                   ocache, reqVars, itemVars>>

\* A failed listing that hands back what was collected.
ScanDirFails_Partial ==
    /\ pc = "scan" /\ queue # <<>>
    /\ queue' = Tail(queue)
    /\ err' = TRUE
    /\ resp' = ServerError
    /\ pc' = "failed"
    /\ UNCHANGED <<tree, r, feedVars, i, j, limit, closed, crashed, poolVars,
                   envVars, blogcache, ocache, req, itemVars>>

\* readDir fails: return nil, err. gentoc panics with the error and serve's
\* deferred function answers 500; nothing is written.
ScanDirFails ==
    /\ pc = "scan" /\ queue # <<>>
    /\ queue' = Tail(queue)
    /\ r' = <<>>
    /\ err' = TRUE
    /\ resp' = ServerError
    /\ pc' = "failed"
    /\ UNCHANGED <<tree, feedVars, i, j, limit, closed, crashed, poolVars,
                   envVars, blogcache, ocache, req, itemVars>>

\* q is empty: return r, nil.
ScanReturn ==
    /\ pc = "scan" /\ queue = <<>>
    /\ pc' = "scanned"
    /\ UNCHANGED <<scanVars, feedVars, i, j, limit, closed, crashed, poolVars,
                   envVars, blogcache, ocache, reqVars, itemVars>>

ScanNext ==
    \/ ScanDir
    \/ ScanDirFails
    \/ ScanReturn

ScanSpec == ScanInit /\ [][ScanNext]_vars

\* The goroutine of the request is scheduled until it returns.
ScanLive == ScanSpec /\ WF_vars(ScanNext)

(***************************************************************************)
(* FeedSpec: "/feed.atom", handled by atomfeed in the goroutine of serve.  *)
(***************************************************************************)
\* if len(show) > 10: the entries the feed always shows
FeedTop == 10

\* the most posts the listing of a feed holds (more than FeedTop)
MaxFeed == 13

FeedName(k) == "p" \o ToString(k)
FeedSizes == {0, 1, FeedTop, FeedTop + 1, MaxFeed}

\* The Date of the k-th of n posts: the listing has the oldest first, or
\* the youngest first, or posts that share their Date two by two.
FeedDate(shape, n, k) ==
    CASE shape = "rising" -> k
      [] shape = "falling" -> n + 1 - k
      [] shape = "paired" -> (k + 1) \div 2

\* n posts under the root; the ones of fav are favorites, the ones of
\* drafts have no Date.
FeedPosts(n, shape, fav, drafts) ==
    [name \in {FeedName(k) : k \in 1..n} |->
        LET k == CHOOSE x \in 1..n : FeedName(x) = name
        IN  [File("ok", IF k \in drafts THEN 0 ELSE FeedDate(shape, n, k),
                  FALSE, {}, "")
                EXCEPT !.Favorite = k \in fav]]

\* What else the tree holds: nothing; a directory "sub" with a published
\* post in it (c.Read of a directory fails, or gives no bytes); a file that
\* cannot be read; a file whose metadata block has no end.
FeedExtras ==
    { <<>>,
      ("sub" :> [File("unreadable", 0, FALSE, {}, "") EXCEPT !.IsDir = TRUE])
        @@ ("sub/q" :> [File("ok", MaxFeed, FALSE, {}, "") EXCEPT !.Nested = TRUE]),
      ("sub" :> [File("ok", 0, FALSE, {}, "") EXCEPT !.IsDir = TRUE])
        @@ ("sub/q" :> [File("ok", MaxFeed, FALSE, {}, "") EXCEPT !.Nested = TRUE]),
      ("zbad" :> File("unreadable", 0, FALSE, {}, "")),
      ("zbad" :> File("noend", 0, FALSE, {}, "")) }

FeedTrees ==
    UNION { { FeedPosts(n, shape, fav, drafts) @@ extra :
                shape \in {"rising", "falling", "paired"},
                fav \in {{}, {1, 2}, {1, 3}, 1..n},
                drafts \in {{}, {n}, 1..n},
                extra \in FeedExtras } :
            n \in FeedSizes }

\* c.ReadDir("blog/post"): the entries right under the root, directories
\* included, by name.
FeedListing ==
    LET order == [k \in 1..MaxFeed |-> FeedName(k)] \o <<"sub", "zbad">>
        names == SelectSeq(order, LAMBDA n : n \in DOMAIN fs)
    IN  [k \in 1..Len(names) |->
            [Name |-> names[k], ModTime |-> fs[names[k]].ModTime,
             Size |-> fs[names[k]].Size]]

\* The loop over dir when no loadPost fails: the records that are no drafts.
FeedAll(d) ==
    SelectSeq([k \in 1..Len(d) |-> loadPost(d[k].Name).meta],
              LAMBDA m : ~IsDraft(m))

\* A feed cut to the first FeedTop records.
FeedShow_TopOnly(s) ==
    IF Len(s) > FeedTop THEN SubSeq(s, 1, FeedTop) ELSE s

\* show: all, or its first FeedTop records and then the favorites of the rest.
FeedShow(s) ==
    IF Len(s) > FeedTop
    THEN SubSeq(s, 1, FeedTop)
            \o SelectSeq(SubSeq(s, FeedTop + 1, Len(s)), LAMBDA m : m.Favorite)
    ELSE s

FeedKey == "blog:atomfeed"
FeedReq ==
    [page |-> "feed", user |-> "?", isOwner |-> FALSE, draft |-> FALSE,
     readdir |-> "", p |-> ""]
FeedPage(from, show) ==
    [status |-> 200, from |-> from, posts |-> show, count |-> 0, name |-> ""]

FeedInit ==
    /\ fs \in FeedTrees
    /\ now = MaxFeed /\ touches = 0
    /\ blogcache = EmptyMap
    /\ ocache = [x \in {} |-> NoResp]
    /\ req = NoReq /\ resp = NoResp
    /\ pc = "idle" /\ i = 0 /\ j = 0 /\ limit = 0
    /\ closed = FALSE /\ crashed = FALSE
    /\ dir = <<>> /\ postCache = EmptyMap /\ ch = <<>> /\ wk = <<>> /\ out = <<>>
    /\ passes = 0 /\ fresh = FALSE
    /\ NoPool
    /\ NoScan

\* The feed is in the page cache: it is written as it is.
FeedCached ==
    /\ ~crashed /\ pc = "idle"
    /\ FeedKey \in DOMAIN ocache
    /\ req' = FeedReq
    /\ resp' = ocache[FeedKey]
    /\ UNCHANGED <<ctlVars, poolVars, scanVars, feedVars, envVars, blogcache,
                   ocache, itemVars>>

\* A miss, and c.ReadDir fails: panic(err), answered 500 by serve.
FeedReadDirFails ==
    /\ ~crashed /\ pc = "idle"
    /\ FeedKey \notin DOMAIN ocache
    /\ req' = FeedReq
    /\ resp' = ServerError
    /\ err' = TRUE
    /\ dir' = <<>>
    /\ sorted' = <<>>
    /\ UNCHANGED <<ctlVars, poolVars, tree, queue, r, envVars, blogcache,
                   ocache, postCache, ch, wk, out, passes, fresh>>

\* A miss, and loadPost fails for an entry of the listing, by an error or
\* by a panic: atomfeed panics, answered 500 by serve.
FeedLoadPanics ==
    /\ ~crashed /\ pc = "idle"
    /\ FeedKey \notin DOMAIN ocache
    /\ \E k \in 1..Len(FeedListing) : loadPost(FeedListing[k].Name).st # "ok"
    /\ req' = FeedReq
    /\ resp' = ServerError
    /\ err' = FALSE
    /\ dir' = FeedListing
    /\ sorted' = <<>>
    /\ UNCHANGED <<ctlVars, poolVars, tree, queue, r, envVars, blogcache,
                   ocache, postCache, ch, wk, out, passes, fresh>>

\* A feed of no entries, stored and written.
FeedEmpty_NoEntries ==
    /\ ~crashed /\ pc = "idle"
    /\ FeedKey \notin DOMAIN ocache
    /\ \A k \in 1..Len(FeedListing) : loadPost(FeedListing[k].Name).st = "ok"
    /\ FeedAll(FeedListing) = <<>>
    /\ req' = FeedReq
    /\ resp' = FeedPage("gen", <<>>)
    /\ ocache' = MapPut(ocache, FeedKey, FeedPage("cache", <<>>))
    /\ err' = FALSE
    /\ dir' = FeedListing
    /\ sorted' = <<>>
    /\ UNCHANGED <<ctlVars, poolVars, tree, queue, r, envVars, blogcache,
                   postCache, ch, wk, out, passes, fresh>>

\* A miss, and no record is left after the drafts are dropped: show[0]
\* panics (index out of range), answered 500 by serve; nothing is stored.
FeedEmpty ==
    /\ ~crashed /\ pc = "idle"
    /\ FeedKey \notin DOMAIN ocache
    /\ \A k \in 1..Len(FeedListing) : loadPost(FeedListing[k].Name).st = "ok"
    /\ FeedAll(FeedListing) = <<>>
    /\ req' = FeedReq
    /\ resp' = ServerError
    /\ err' = FALSE
    /\ dir' = FeedListing
    /\ sorted' = <<>>
    /\ UNCHANGED <<ctlVars, poolVars, tree, queue, r, envVars, blogcache,
                   ocache, postCache, ch, wk, out, passes, fresh>>

\* A miss: the records that are no drafts are sorted, show is cut out of
\* them, the feed is rendered, stored in the page cache and written.
FeedGenerate ==
    /\ ~crashed /\ pc = "idle"
    /\ FeedKey \notin DOMAIN ocache
    /\ \A k \in 1..Len(FeedListing) : loadPost(FeedListing[k].Name).st = "ok"
    /\ FeedAll(FeedListing) # <<>>
    /\ \E s \in Sorted(FeedAll(FeedListing)) :
          /\ sorted' = s
          /\ resp' = FeedPage("gen", FeedShow(s))
          /\ ocache' = MapPut(ocache, FeedKey, FeedPage("cache", FeedShow(s)))
    /\ req' = FeedReq
    /\ err' = FALSE
    /\ dir' = FeedListing
    /\ UNCHANGED <<ctlVars, poolVars, tree, queue, r, envVars, blogcache,
                   postCache, ch, wk, out, passes, fresh>>

FeedNext ==
    \/ FeedCached
    \/ FeedReadDirFails
    \/ FeedLoadPanics
    \/ FeedEmpty
    \/ FeedGenerate

FeedSpec == FeedInit /\ [][FeedNext]_vars

(***************************************************************************)
(* The claims.                                                             *)
(***************************************************************************)

\* C1: full-barrier join. Whenever ch has been closed no goroutine of the
\* pass holds a ticket (none is inside loadPost, none has its deferred
\* release pending), so every dispatched parse has finished; and once ch is
\* closed no record is put into it any more.
C1_FullBarrier ==
    /\ [](closed => InFlight = 0)
    /\ [][closed => chLen' = chLen]_vars

\* ch is closed after more than par goroutines ran, one of them failing.
C1_Witness == closed /\ spawned > par /\ unreadable > 0 /\ chLen > 0

\* C2: refresh termination. The pass ends: a state in which nothing can
\* happen any more is a state in which the pass is done (no state is one in
\* which the dispatcher waits for a ticket nobody returns).
C2_Terminates == pc = "done" \/ ENABLED PoolNext

\* C8: concurrency cap. At most par (20) goroutines hold a ticket.
C8_Cap == InFlight <= par

\* More than par goroutines have been started and par of them are in flight.
C8_Witness == spawned > par /\ InFlight = par /\ limit = 0

\* C17: permit conservation. The tickets in limit, the goroutines holding
\* one and the tickets the barrier loop has taken back are par together, in
\* every state (up to the end of the dispatch loop j is 0: tickets in limit
\* plus parses in flight are par), so every goroutine that has ended, by a
\* return or by a panic, gave back the one ticket it took; and the step of
\* a cache hit leaves limit as it is.
C17_Conservation ==
    /\ [](limit + InFlight + j = par)
    /\ []((pc = "dispatch" /\ j = 0) => limit + InFlight = par)
    /\ [][(i' = i + 1 /\ spawned' = spawned) => limit' = limit]_vars

\* The dispatch loop is running, more than par goroutines were started, a
\* read failed and a load panicked (both tickets are back), an entry was a
\* cache hit and parses are in flight.
C17_Witness ==
    /\ pc = "dispatch" /\ j = 0 /\ spawned > par /\ i > spawned
    /\ unreadable > 0 /\ dying > 0 /\ InFlight > 0

\* C19: the result channel never blocks. No more records are in ch than
\* entries have been handled, none of the goroutines inside loadPost counted
\* (an entry is emitted once at most), and whenever the dispatch loop or a
\* goroutine may come to send, ch has room.
C19_NeverBlocks ==
    /\ chLen + loading <= i
    /\ chLen <= ChCap
    /\ (loading > 0 \/ (pc = "dispatch" /\ i < dirLen)) => chLen < ChCap

\* The last goroutine of the longest listing is about to send into a
\* channel that holds every other record, nothing having read it.
C19_Witness ==
    /\ dirLen = MaxItems /\ ~closed
    /\ loading = 1 /\ chLen = dirLen - 1

\* ---- the claims about the named posts

\* The record m is on the page.
OnPage(m) == \E q \in 1..Len(resp.posts) : resp.posts[q] = m

\* gentoc has just generated the index for req.
Generated == pc = "idle" /\ req.page = "toc" /\ resp.from = "gen"

\* A pass is between its dispatch loop and the end of gentoc.
InPass == pc \in {"dispatch", "closed"}

\* C3: parse-failure isolation. When loadPost fails for an entry (the read
\* fails, or the metadata block has no end or does not decode) the process
\* stays up and the ticket of the entry is back before ch is closed.
C3_FailureIsolated ==
    \A k \in DOMAIN wk :
        (wk[k] \notin {"none", "loading"} /\ loadPost(dir[k].Name).st # "ok")
            => (~crashed /\ (closed => wk[k] = "done"))

\* C5: published-index filter. In an index generated in published mode a
\* record of the refreshed set is on the page iff it is no draft and is not
\* flagged NotInTOC, whoever asks.
C5_PublishedFilter ==
    (Generated /\ ~req.draft) =>
        \A k \in 1..Len(ch) : OnPage(ch[k]) <=> (~IsDraft(ch[k]) /\ ~ch[k].NotInTOC)

\* C6: staleness check. An entry the dispatch loop has handled was served
\* from postCache without a goroutine iff postCache holds a record under its
\* name with the listed modification time and the listed size; the record
\* emitted for it is then that record.
C6_Staleness ==
    InPass =>
        \A k \in 1..i :
            /\ (wk[k] = "none") <=>
                  /\ dir[k].Name \in DOMAIN postCache
                  /\ postCache[dir[k].Name].FileModTime = dir[k].ModTime
                  /\ postCache[dir[k].Name].FileSize = dir[k].Size
            /\ (wk[k] = "none") => out[k] = postCache[dir[k].Name]

\* One entry is served from postCache and another, whose cached record
\* differs from the listing in one field only, is parsed.
C6_Witness ==
    /\ InPass
    /\ \E k \in 1..i : wk[k] = "none"
    /\ \E k \in 1..i :
          /\ wk[k] # "none"
          /\ dir[k].Name \in DOMAIN postCache
          /\ (postCache[dir[k].Name].FileModTime = dir[k].ModTime)
                # (postCache[dir[k].Name].FileSize = dir[k].Size)

\* C7: draft-index visibility. In an index generated in draft mode a record
\* of the refreshed set is on the page iff the caller is the owner or is in
\* the record's Reader list; "/draft" asked by "?" is answered not found.
C7_DraftIndex ==
    /\ (Generated /\ req.draft) =>
          \A k \in 1..Len(ch) :
              OnPage(ch[k]) <=> (req.isOwner \/ req.user \in ch[k].Reader)
    /\ (req.page = "toc" /\ req.draft /\ req.user = "?") => resp = NotFound

\* A caller who is not the owner gets a draft index with the one record
\* that lists them and without the other.
C7_Witness ==
    /\ Generated /\ req.draft /\ ~req.isOwner
    /\ Len(ch) = 2 /\ Len(resp.posts) = 1
    /\ req.user \in resp.posts[1].Reader

\* The record of the file n is stored in "blogcache" under n by a pass that
\* resolves every file: loadPost gives a record named n, and no other file
\* gives a record of that name.
StoredUnderOwnName(n) ==
    /\ loadPost(n).st = "ok"
    /\ loadPost(n).meta.Name = n
    /\ \A n2 \in DOMAIN fs \ {n} :
          ~(loadPost(n2).st = "ok" /\ loadPost(n2).meta.Name = n)

C10_Snapshot ==
    (Generated /\ fresh) =>
        /\ DOMAIN blogcache = {dir[k].Name : k \in {q \in DOMAIN out : out[q] # NoMeta}}
        /\ \A k \in DOMAIN out :
              out[k] # NoMeta => blogcache[dir[k].Name] = jsonRoundTrip(out[k])

\* C13: index ordering. The page of a generated index never shows a record
\* before one with a later Date, in whatever order the records came out of
\* ch; records with different Dates are in strictly descending order.
C13_Ordered ==
    Generated =>
        \A a, b \in 1..Len(resp.posts) :
            a < b => /\ resp.posts[a].Date >= resp.posts[b].Date
                     /\ (resp.posts[a].Date # resp.posts[b].Date
                            => resp.posts[a].Date > resp.posts[b].Date)

\* Two records with different Dates came out of ch the older first and are
\* on the page the younger first.
C13_Witness ==
    /\ Generated /\ Len(resp.posts) = 2 /\ Len(ch) = 2
    /\ ch[1].Date < ch[2].Date
    /\ resp.posts = <<ch[2], ch[1]>>

\* C20: tie order. Two different records of the page with the same Date are
\* on the page in the order in which they came out of ch.
C20_TiesKeepOrder ==
    Generated =>
        \A a, b \in 1..Len(resp.posts) :
            (a < b /\ resp.posts[a].Date = resp.posts[b].Date
                   /\ resp.posts[a] # resp.posts[b])
                => \E x, y \in 1..Len(ch) :
                      x < y /\ ch[x] = resp.posts[a] /\ ch[y] = resp.posts[b]

\* C18: isolation of the cached index pages. A page toc serves from the
\* page cache holds only records gentoc's filter would put on a page
\* generated for this caller in this mode.
C18_CacheIsolation ==
    (req.page = "toc" /\ resp.status = 200 /\ resp.from = "cache") =>
        \A k \in 1..Len(resp.posts) :
            InIndex(resp.posts[k], req.draft, req.isOwner, req.user)

\* ---- the claims about the scan

\* The files of the tree: the nodes that are no directories.
Leaves == { n \in tree : ~IsDirNode(n) }

\* C14: scan completeness. readDirEllipses comes to its end, and when it
\* returns without an error r holds, for every file of the tree, one entry
\* whose Name is the path of the file from the root, and nothing else: no
\* file twice, no directory.
C14_ScanComplete ==
    /\ <>(pc \in {"scanned", "failed"})
    /\ [](pc = "scanned" =>
            /\ \A n \in Leaves :
                  Cardinality({k \in 1..Len(r) : r[k].Name = PathOf(n)}) = 1
            /\ \A k \in 1..Len(r) :
                  ~r[k].IsDir /\ \E n \in Leaves : r[k].Name = PathOf(n)
            /\ Len(r) = Cardinality(Leaves))

\* A scan has returned the files of a tree with a file under the root, one
\* in each of the sibling directories d and e, and one MaxDepth
\* directories down.
C14_Witness ==
    /\ pc = "scanned"
    /\ {<<"x">>, <<"d", "x">>, <<"e", "x">>, Append(Chain(MaxDepth), "x")} \subseteq tree
    /\ Len(r) >= 4

\* C15: scan all-or-nothing. A step in which a listing fails leaves r empty
\* and answers 500, and writes neither "blogcache" nor the page cache; r
\* stays empty afterwards.
C15_AllOrNothing ==
    /\ [][err' => /\ r' = <<>>
                  /\ resp' = ServerError
                  /\ blogcache' = blogcache
                  /\ ocache' = ocache]_vars
    /\ [](err => r = <<>> /\ pc = "failed")

\* A listing failed after the root had been listed (directories were still
\* queued), in a tree with a file under the root.
C15_Witness ==
    /\ err /\ queue # <<>> /\ <<"x">> \in tree
    /\ r = <<>> /\ resp = ServerError

\* ---- the claims about the feed

\* atomfeed has just generated the feed.
FeedGenerated == req.page = "feed" /\ resp.from = "gen"

\* The positions of sorted the feed shows: the first FeedTop and the
\* favorites.
Shown == { k \in 1..Len(sorted) : k <= FeedTop \/ sorted[k].Favorite }

\* C11: feed selection. sorted holds the records that are no drafts, none
\* before one with a later Date; the feed shows the records at the first
\* FeedTop positions of sorted and the favorites at the later positions,
\* each once, in the order of sorted, and nothing else (all of sorted when
\* it has FeedTop records or fewer).
C11_FeedSelection ==
    FeedGenerated =>
        /\ Len(sorted) = Len(FeedAll(dir))
        /\ \A k \in 1..Len(sorted) :
              \E x \in 1..Len(sorted) : sorted[x] = FeedAll(dir)[k]
        /\ \A a, b \in 1..Len(sorted) : a < b => sorted[a].Date >= sorted[b].Date
        /\ Len(sorted) <= FeedTop => resp.posts = sorted
        /\ Len(resp.posts) = Cardinality(Shown)
        /\ \A a \in 1..Len(resp.posts) :
              resp.posts[a] =
                sorted[CHOOSE k \in Shown : Cardinality({x \in Shown : x < k}) = a - 1]

\* MaxFeed records, two favorites among the ones after the first FeedTop:
\* the feed has FeedTop + 2 entries and leaves a record out.
C11_Witness ==
    /\ FeedGenerated /\ Len(sorted) = MaxFeed
    /\ Len(resp.posts) = FeedTop + 2
    /\ \A k \in 1..FeedTop : ~sorted[k].Favorite
    /\ dir[1].Name = sorted[MaxFeed].Name

\* The posts of the tree that are no drafts, in whatever directory.
NonDrafts ==
    { n \in DOMAIN fs :
        ~fs[n].IsDir /\ loadPost(n).st = "ok" /\ ~IsDraft(loadPost(n).meta) }

\* C12: feed pipeline. When the feed has been asked for, the listing did
\* not fail and every file of the tree can be loaded, each post that is no
\* draft and is among the FeedTop most recent ones, in whatever directory
\* it lies, is an entry of the feed.
C12_FeedFromScan ==
    (/\ req.page = "feed" /\ ~err
     /\ \A n \in DOMAIN fs : ~fs[n].IsDir => loadPost(n).st = "ok") =>
        \A n \in NonDrafts :
            Cardinality({m \in NonDrafts :
                            loadPost(m).meta.Date > loadPost(n).meta.Date}) < FeedTop
                => \E k \in 1..Len(resp.posts) : resp.posts[k].Name = n

\* C16: empty feed. With no post that is no draft, every request for the
\* feed is answered 500 and the page cache holds nothing under the key of
\* the feed.
C16_EmptyFeed ==
    NonDrafts = {} =>
        /\ FeedKey \notin DOMAIN ocache
        /\ req.page = "feed" => resp = ServerError

\* The listing was read and every entry loaded, all of them drafts: the
\* request was answered 500.
C16_Witness ==
    /\ req.page = "feed" /\ NonDrafts = {} /\ ~err
    /\ Len(dir) = MaxFeed
    /\ \A k \in 1..Len(dir) : loadPost(dir[k].Name).st = "ok"
    /\ resp = ServerError

\* ---- the claim about article requests

\* C4: not found for what may not be shown. A request outside draft mode for
\* a post that is a draft, and a request in draft mode by a caller who is not
\* the owner and is not in the post's Reader list, are answered not found,
\* whatever the page cache holds.
C4_DisallowedNotFound ==
    (req.page = "article" /\ req.p \in DOMAIN fs /\ loadPost(req.p).st = "ok") =>
        ((\/ (~req.draft /\ IsDraft(loadPost(req.p).meta))
          \/ (req.draft /\ ~req.isOwner /\ ~canRead(loadPost(req.p).meta, req.user)))
            => resp = NotFound)

====
